---- MODULE Spec2Model ----
(***************************************************************************)
(* A model of the runtime core of small_engine: the entity graph (World),  *)
(* the per-frame instance buffer (InstanceBuffer), the scene assembler     *)
(* (Scene::to_commands) and the renderer's frame protocol (Renderer).      *)
(*                                                                         *)
(* Numbers.  Vector components are integers.  A rotation quaternion is     *)
(* kept in half units: the tuple <<s, x, y, z>> stands for the quaternion  *)
(* (s + x i + y j + z k) / 2, so <<2,0,0,0>> is the unit rotation.  The    *)
(* rotations used are Hurwitz units, on which the f32 arithmetic of the    *)
(* code is exact.                                                          *)
(***************************************************************************)
EXTENDS Integers, Sequences, FiniteSets, TLC

(***************************************************************************)
(* Bounds of the model.                                                    *)
(***************************************************************************)
\* entities that add_entity may create besides the root
MaxEntities == 2
\* update_local_transform / update_parent_transform calls in one run
MaxEdits == 1
\* add() calls between two clear() calls
MaxAdds == 3
\* size of a scene: its mesh instances plus its empty groups
MaxInstances == 2
\* instance records the buffer holds when a frame starts plus those the frame adds
MaxBacklog == 5
\* dequeues after which an update_graph call is taken never to return
MaxVisits == 6

VARIABLES
    \* World (src/core/world.rs)
    entities,           \* World::entities: issued id -> WorldEntity
    panic,              \* "none", or the panic that aborted the program
    \* history of the World
    propagateRuns,      \* update_graph calls since the last mutation (capped at 2)
    markedDirty,        \* ids on which the last update_graph called set_already_propagated(false)
    edits,              \* the update_*_transform calls made so far, in order
    issued,             \* the ids World::new and add_entity have handed out
    \* InstanceBuffer (src/graphics/scene/instance_buffer.rs)
    instance_buffer,    \* [buffer, buffer_data, buffer_size, mesh_ranges]
    \* history of the InstanceBuffer
    returned,           \* the add() calls made directly on the buffer since the last direct
                        \* clear(): [mesh, range returned, number of records given]
    \* Renderer (src/graphics/render/renderer.rs)
    surface_is_configured,
    current_frame,      \* TRUE for Some(CurrentFrameData), FALSE for None
    pipelines,          \* number of keys Renderer::pipelines has issued: 1..pipelines
    bind_groups,        \* number of keys Renderer::bind_groups has issued: 1..bind_groups
    assets,             \* AssetStore: [meshes, materials]
    \* Scene (src/graphics/scene/mod.rs)
    scene,
    \* what the last operation was called with, did and returned
    last

worldVars == <<entities, propagateRuns, markedDirty, edits, issued>>
arenaVars == <<instance_buffer, returned>>
rendererVars == <<surface_is_configured, current_frame, pipelines, bind_groups, assets, scene>>
vars == <<entities, panic, propagateRuns, markedDirty, edits, issued, instance_buffer, returned,
          surface_is_configured, current_frame, pipelines, bind_groups, assets, scene, last>>

(***************************************************************************)
(* SpatialTransform (src/core/entity/spatial_transform.rs)                 *)
(***************************************************************************)
Vec3(x, y, z) == <<x, y, z>>

\* Vector3::mul_element_wise
MulElementWise(a, b) == <<a[1] * b[1], a[2] * b[2], a[3] * b[3]>>

\* Vector3 + Vector3
VecAdd(a, b) == <<a[1] + b[1], a[2] + b[2], a[3] + b[3]>>

\* Vector3 * scalar
VecScale(a, k) == <<a[1] * k, a[2] * k, a[3] * k>>

\* Vector3::cross
Cross(a, b) ==
    <<a[2] * b[3] - a[3] * b[2],
      a[3] * b[1] - a[1] * b[3],
      a[1] * b[2] - a[2] * b[1]>>

\* Quaternion * Quaternion (Hamilton product); both operands and the result in half units
QuatMul(p, q) ==
    << (p[1] * q[1] - p[2] * q[2] - p[3] * q[3] - p[4] * q[4]) \div 2,
       (p[1] * q[2] + p[2] * q[1] + p[3] * q[4] - p[4] * q[3]) \div 2,
       (p[1] * q[3] + p[3] * q[1] + p[4] * q[2] - p[2] * q[4]) \div 2,
       (p[1] * q[4] + p[4] * q[1] + p[2] * q[3] - p[3] * q[2]) \div 2 >>

\* Quaternion * Vector3: tmp = v x vec + vec * s; result = (v x tmp) * 2 + vec,
\* with s and v in half units
QuatRotate(q, vec) ==
    LET v   == <<q[2], q[3], q[4]>>
        tmp == VecAdd(Cross(v, vec), VecScale(vec, q[1]))
        c   == Cross(v, tmp)
    IN  VecAdd(<<c[1] \div 2, c[2] \div 2, c[3] \div 2>>, vec)

\* an identity whose rotation is the zero quaternion
identity_ZeroRotation ==
    [scale |-> Vec3(1, 1, 1), position |-> Vec3(0, 0, 0), rotation |-> <<0, 0, 0, 0>>]

\* SpatialTransform::identity
identity == [scale |-> Vec3(1, 1, 1), position |-> Vec3(0, 0, 0), rotation |-> <<2, 0, 0, 0>>]

\* SpatialTransform::combine
combine(self, child) ==
    LET scaled_position  == MulElementWise(self.scale, child.position)
        combined_scale   == MulElementWise(self.scale, child.scale)
        rotated_position == QuatRotate(self.rotation, scaled_position)
        final_position   == VecAdd(self.position, rotated_position)
        combined_rotation == QuatMul(self.rotation, child.rotation)
    IN  [scale |-> combined_scale, position |-> final_position, rotation |-> combined_rotation]

\* Matrix3 * Matrix3; a matrix is the tuple of its rows
Mat3Mul(m, n) ==
    [i \in 1..3 |-> [j \in 1..3 |-> m[i][1] * n[1][j] + m[i][2] * n[2][j] + m[i][3] * n[3][j]]]

\* Matrix3 * Vector3
Mat3Vec(m, v) == [i \in 1..3 |-> m[i][1] * v[1] + m[i][2] * v[2] + m[i][3] * v[3]]

\* Matrix3::from(Quaternion), the quaternion in half units: x2 * x of the code is
\* (X * X) / 2 and so on
Mat3FromQuat(q) ==
    LET S == q[1]  X == q[2]  Y == q[3]  Z == q[4]
    IN  << <<1 - (Y * Y + Z * Z) \div 2, (X * Y - S * Z) \div 2, (X * Z + S * Y) \div 2>>,
           <<(X * Y + S * Z) \div 2, 1 - (X * X + Z * Z) \div 2, (Y * Z - S * X) \div 2>>,
           <<(X * Z - S * Y) \div 2, (Y * Z + S * X) \div 2, 1 - (X * X + Y * Y) \div 2>> >>

\* Matrix4 * Matrix4 on matrices whose last row is (0, 0, 0, 1): the upper-left
\* 3x3 block and the translation column
Mat4Mul(m, n) ==
    [linear |-> Mat3Mul(m.linear, n.linear),
     translation |-> VecAdd(Mat3Vec(m.linear, n.translation), m.translation)]

\* SpatialTransform::model: from_translation(position) * from(rotation) *
\* from_nonuniform_scale(scale)
model(self) ==
    LET r == Mat3FromQuat(self.rotation)
    IN  [linear |-> [i \in 1..3 |-> [j \in 1..3 |-> r[i][j] * self.scale[j]]],
         translation |-> self.position]

\* SpatialTransform::combine_raw, the model matrix; the normal matrix is left out
combine_raw(self, b) == [model |-> Mat4Mul(model(self), model(b))]

\* the transforms the callers hand to add_entity and to the update closures
Translate(x, y, z) == [scale |-> Vec3(1, 1, 1), position |-> Vec3(x, y, z), rotation |-> <<2, 0, 0, 0>>]
LocalTransforms == {Translate(0, 5, 0), Translate(1, 0, 0)}

(***************************************************************************)
(* WorldEntity (src/core/entity/mod.rs)                                    *)
(***************************************************************************)
\* Option::None of an Option<WorldEntityId>
NoneId == 0

\* a constructor that makes the entity clean
WorldEntity_new_Clean(parent, children, local_transform) ==
    [parent |-> parent,
     children |-> children,
     local_transform |-> local_transform,
     parent_transform |-> identity,
     already_propagated |-> TRUE]

\* WorldEntity::new
WorldEntity_new(parent, children, local_transform) ==
    [parent |-> parent,
     children |-> children,
     local_transform |-> local_transform,
     parent_transform |-> identity,
     already_propagated |-> FALSE]

\* WorldEntity::transform_raw
transform_raw(e) == combine_raw(e.parent_transform, e.local_transform)

\* WorldEntity::transform
transform(e) == combine(e.parent_transform, e.local_transform)

\* an update that assigns t and leaves the flag as it was
update_local_transform_KeepsFlag(e, t) == [e EXCEPT !.local_transform = t]

\* WorldEntity::update_local_transform, the closure assigning t
update_local_transform(e, t) ==
    [e EXCEPT !.local_transform = t, !.already_propagated = FALSE]

\* WorldEntity::update_parent_transform, the closure assigning t
update_parent_transform(e, t) ==
    [e EXCEPT !.parent_transform = t, !.already_propagated = FALSE]

\* WorldEntity::set_already_propagated
set_already_propagated(e, val) == [e EXCEPT !.already_propagated = val]

(***************************************************************************)
(* World (src/core/world.rs)                                               *)
(***************************************************************************)
\* World::root_entity: the first key the slot map issues
root_entity == 1

\* a World whose root lists itself as a child
World_new_RootListsItself == <<WorldEntity_new(NoneId, <<1>>, identity)>>

\* World::new
World_new == <<WorldEntity_new(NoneId, <<>>, identity)>>

\* SlotMap::insert on a map nothing was removed from: the key of the next free slot
SlotMap_insert(ents) == Len(ents) + 1

\* a lookup that misses the key issued last
HasEntity_MissesNewest(ents, id) == id \in 1..(Len(ents) - 1)

\* World::entity / World::entity_mut: SlotMap::get finds exactly the issued keys
HasEntity(ents, id) == id \in DOMAIN ents

\* the inner for loop of update_graph: every child gets cur_parent and is marked dirty
RECURSIVE PropagateToChildren(_, _, _, _)
PropagateToChildren(st, children, i, cur_parent) ==
    IF i > Len(children) \/ st.panic # "none" THEN st
    ELSE LET node == children[i]
         IN  IF ~HasEntity(st.ents, node)
             THEN [st EXCEPT !.panic = "unwrap"]
             ELSE PropagateToChildren(
                    [st EXCEPT !.ents[node] =
                                   set_already_propagated(update_parent_transform(@, cur_parent), FALSE),
                               !.marked = @ \cup {node}],
                    children, i + 1, cur_parent)

\* push_front of every child, in order, on the queue (front = head of the sequence)
RECURSIVE PushFrontAll(_, _, _)
PushFrontAll(queue, children, i) ==
    IF i > Len(children) THEN queue
    ELSE PushFrontAll(<<children[i]>> \o queue, children, i + 1)

\* a visit that also hands the entity its own transform and marks it dirty again
UpdateGraphVisit_MarksSelf(st, cur_entity_id) ==
    LET cur_entity == st.ents[cur_entity_id]
        children   == cur_entity.children
    IN  IF ~cur_entity.already_propagated
        THEN LET flagged    == [st EXCEPT !.ents[cur_entity_id] = set_already_propagated(@, TRUE)]
                 cur_parent == transform(flagged.ents[cur_entity_id])
             IN  PropagateToChildren(flagged, <<cur_entity_id>> \o children, 1, cur_parent)
        ELSE st

\* a visit that marks a clean entity dirty again
UpdateGraphVisit_DirtiesClean(st, cur_entity_id) ==
    LET cur_entity == st.ents[cur_entity_id]
        children   == cur_entity.children
    IN  IF ~cur_entity.already_propagated
        THEN LET flagged    == [st EXCEPT !.ents[cur_entity_id] = set_already_propagated(@, TRUE)]
                 cur_parent == transform(flagged.ents[cur_entity_id])
             IN  PropagateToChildren(flagged, children, 1, cur_parent)
        ELSE [st EXCEPT !.ents[cur_entity_id] = set_already_propagated(@, FALSE)]

\* one iteration of the while loop of update_graph on the dequeued entity
UpdateGraphVisit(st, cur_entity_id) ==
    LET cur_entity == st.ents[cur_entity_id]
        children   == cur_entity.children
    IN  IF ~cur_entity.already_propagated
        THEN LET flagged    == [st EXCEPT !.ents[cur_entity_id] = set_already_propagated(@, TRUE)]
                 cur_parent == transform(flagged.ents[cur_entity_id])
             IN  PropagateToChildren(flagged, children, 1, cur_parent)
        ELSE st

\* the while loop of update_graph; pop_back takes the last element of the sequence
RECURSIVE UpdateGraphLoop(_, _)
UpdateGraphLoop(st, node_queue) ==
    IF node_queue = <<>> \/ st.panic # "none" THEN st
    ELSE IF Len(st.visited) >= MaxVisits THEN [st EXCEPT !.panic = "hang"]
    ELSE LET cur_entity_id == node_queue[Len(node_queue)]
             rest          == SubSeq(node_queue, 1, Len(node_queue) - 1)
             popped        == [st EXCEPT !.visited = Append(@, cur_entity_id)]
         IN  IF ~HasEntity(st.ents, cur_entity_id)
             THEN [popped EXCEPT !.panic = "unwrap"]
             ELSE UpdateGraphLoop(
                    UpdateGraphVisit(popped, cur_entity_id),
                    PushFrontAll(rest, st.ents[cur_entity_id].children, 1))

\* World::update_graph
World_update_graph(ents) ==
    UpdateGraphLoop([ents |-> ents, marked |-> {}, visited |-> <<>>, panic |-> "none"],
                    <<root_entity>>)

(***************************************************************************)
(* InstanceBuffer (src/graphics/scene/instance_buffer.rs)                  *)
(***************************************************************************)
\* InstanceBuffer::INITIAL_BUF_SIZE, in records; the code's 10_000 scaled down
INITIAL_BUF_SIZE == 4

\* size_of::<MeshInstanceData>(): a [[f32; 4]; 4] model and a [[f32; 3]; 3] normal matrix
InstanceStride == 100

\* a map with no key (an empty SecondaryMap)
EmptyMap == [k \in {} |-> 0]

\* an insert that keeps the value of a key the map already holds
MapInsert_KeepExisting(map, key, value) ==
    [k \in DOMAIN map \cup {key} |-> IF k \in DOMAIN map THEN map[k] ELSE value]

\* SecondaryMap::insert
MapInsert(map, key, value) ==
    [k \in DOMAIN map \cup {key} |-> IF k = key THEN value ELSE map[k]]

\* GpuBuffer::create_writeable_vertex_uninit: a new device buffer of `size` bytes
create_writeable_vertex_uninit(id, size) == [id |-> id, size |-> size]

\* InstanceBuffer::new
InstanceBuffer_new ==
    [buffer |-> create_writeable_vertex_uninit(1, INITIAL_BUF_SIZE * InstanceStride),
     buffer_data |-> <<>>,
     buffer_size |-> INITIAL_BUF_SIZE,
     mesh_ranges |-> EmptyMap]

\* a clear that empties the records and keeps the ranges
InstanceBuffer_clear_KeepsRanges(ib) == [ib EXCEPT !.buffer_data = <<>>]

\* InstanceBuffer::clear
InstanceBuffer_clear(ib) == [ib EXCEPT !.mesh_ranges = EmptyMap, !.buffer_data = <<>>]

\* an add that reads the start of the range after extending the mirror
InstanceBuffer_add_RangeAfterExtend(ib, data, mesh) ==
    LET required_size == Len(ib.buffer_data) + Len(data)
        grown == IF required_size > ib.buffer_size
                 THEN [ib EXCEPT !.buffer = create_writeable_vertex_uninit(
                                                ib.buffer.id + 1, ib.buffer_size * 2),
                                 !.buffer_size = ib.buffer_size * 2]
                 ELSE ib
        range == [start |-> required_size, end |-> required_size + Len(data)]
    IN  [ib |-> [grown EXCEPT !.mesh_ranges = MapInsert(grown.mesh_ranges, mesh, range),
                              !.buffer_data = grown.buffer_data \o data],
         range |-> range]

\* an add that reads the end of the range before extending the mirror
InstanceBuffer_add_EndBeforeExtend(ib, data, mesh) ==
    LET required_size == Len(ib.buffer_data) + Len(data)
        grown == IF required_size > ib.buffer_size
                 THEN [ib EXCEPT !.buffer = create_writeable_vertex_uninit(
                                                ib.buffer.id + 1, ib.buffer_size * 2),
                                 !.buffer_size = ib.buffer_size * 2]
                 ELSE ib
        range == [start |-> Len(ib.buffer_data), end |-> Len(ib.buffer_data)]
    IN  [ib |-> [grown EXCEPT !.mesh_ranges = MapInsert(grown.mesh_ranges, mesh, range),
                              !.buffer_data = grown.buffer_data \o data],
         range |-> range]

\* InstanceBuffer::add; the result carries the new buffer state and the returned range
InstanceBuffer_add(ib, data, mesh) ==
    LET required_size == Len(ib.buffer_data) + Len(data)
        grown == IF required_size > ib.buffer_size
                 THEN [ib EXCEPT !.buffer = create_writeable_vertex_uninit(
                                                ib.buffer.id + 1, ib.buffer_size * 2),
                                 !.buffer_size = ib.buffer_size * 2]
                 ELSE ib
        range == [start |-> Len(ib.buffer_data), end |-> Len(ib.buffer_data) + Len(data)]
    IN  [ib |-> [grown EXCEPT !.mesh_ranges = MapInsert(grown.mesh_ranges, mesh, range),
                              !.buffer_data = grown.buffer_data \o data],
         range |-> range]

\* the capacity test of InstanceBuffer::write: TRUE when write() panics
InstanceBuffer_write_panics(ib) ==
    ib.buffer.size < Len(ib.buffer_data) * InstanceStride

\* Option::None of get_slice
NoSlice == [buffer |-> 0, start |-> 0, end |-> 0]

\* InstanceBuffer::get_slice: the byte range of the current device buffer, or NoSlice
InstanceBuffer_get_slice(ib, mesh) ==
    IF mesh \in DOMAIN ib.mesh_ranges
    THEN [buffer |-> ib.buffer.id,
          start |-> ib.mesh_ranges[mesh].start * InstanceStride,
          end |-> ib.mesh_ranges[mesh].end * InstanceStride]
    ELSE NoSlice

(***************************************************************************)
(* AssetStore (src/graphics/render/assets.rs), Mesh and Material           *)
(* (src/graphics/render/renderable/model.rs)                               *)
(***************************************************************************)
\* AssetStore::mesh / AssetStore::material: SlotMap::get finds exactly the issued keys
HasKey(map, id) == id \in DOMAIN map

\* a command whose instance count is the end of the range
to_render_command_CountsToEnd(id, material, pipeline, instance_buffer_range, camera_bind_group, lighting_bind_group) ==
    [mesh |-> id,
     pipeline |-> pipeline,
     camera_bind_group |-> camera_bind_group,
     lighting_bind_group |-> lighting_bind_group,
     material_bind_group |-> material.bind_group,
     instance_buffer_range |-> instance_buffer_range,
     instances |-> instance_buffer_range.end]

\* Mesh::to_render_command
to_render_command(id, material, pipeline, instance_buffer_range, camera_bind_group, lighting_bind_group) ==
    [mesh |-> id,
     pipeline |-> pipeline,
     camera_bind_group |-> camera_bind_group,
     lighting_bind_group |-> lighting_bind_group,
     material_bind_group |-> material.bind_group,
     instance_buffer_range |-> instance_buffer_range,
     instances |-> instance_buffer_range.end - instance_buffer_range.start]

(***************************************************************************)
(* Scene (src/graphics/scene/mod.rs)                                       *)
(***************************************************************************)
\* Scene::new: the scene graph holds its root node, no mesh instance yet
Scene_new(pipeline, global_bind_group, lighting_bind_group) ==
    [scene_nodes |-> 1,
     mesh_instances |-> <<>>,
     instances_by_mesh |-> EmptyMap,
     pipeline |-> pipeline,
     global_bind_group |-> global_bind_group,
     lighting_bind_group |-> lighting_bind_group]

\* Scene::add_mesh_instances: the new scene and the returned id list.  Vec::append
\* moves the new ids out of instance_ids, which is then returned empty.
Scene_add_mesh_instances(sc, mesh, instances) ==
    LET instance_ids == [i \in 1..Len(instances) |-> Len(sc.mesh_instances) + i]
        inserted     == [sc EXCEPT !.mesh_instances = @ \o instances]
    IN  IF HasKey(sc.instances_by_mesh, mesh)
        THEN [scene |-> [inserted EXCEPT !.instances_by_mesh[mesh] = @ \o instance_ids],
              ids |-> <<>>]
        ELSE [scene |-> [inserted EXCEPT !.instances_by_mesh =
                                             MapInsert(@, mesh, instance_ids)],
              ids |-> instance_ids]

\* the closure of to_commands mapped over a group's instances, collected into a
\* Result: the raw transforms of the instances' nodes, or the first error
RECURSIVE ResolveInstances(_, _, _, _)
ResolveInstances(sc, mesh_instances, i, acc) ==
    IF i > Len(mesh_instances) THEN [result |-> "Ok", transforms |-> acc]
    ELSE LET inst_id == mesh_instances[i]
         IN  IF ~HasKey(sc.mesh_instances, inst_id)
             THEN [result |-> "MeshInstanceNotFound", transforms |-> <<>>]
             ELSE LET node == sc.mesh_instances[inst_id].node
                  IN  IF node \notin 1..sc.scene_nodes
                      THEN [result |-> "SceneNodeNotFound", transforms |-> <<>>]
                      ELSE ResolveInstances(sc, mesh_instances, i + 1, Append(acc, node))

\* the keys of a SecondaryMap in iteration order (ascending slot index)
RECURSIVE KeysInOrder(_)
KeysInOrder(keys) ==
    IF keys = {} THEN <<>>
    ELSE LET k == CHOOSE x \in keys : \A y \in keys : x <= y
         IN  <<k>> \o KeysInOrder(keys \ {k})

\* the body of the for loop of to_commands for one (mesh_id, mesh_instances) group
ToCommandsGroup(sc, store, st, mesh_id) ==
    IF ~HasKey(store.meshes, mesh_id)
    THEN [st EXCEPT !.result = "MeshNotFound"]
    ELSE LET mesh == store.meshes[mesh_id]
         IN  IF ~HasKey(store.materials, mesh.material)
             THEN [st EXCEPT !.result = "MaterialNotFound"]
             ELSE LET material == store.materials[mesh.material]
                      resolved == ResolveInstances(sc, sc.instances_by_mesh[mesh_id], 1, <<>>)
                  IN  IF resolved.result # "Ok"
                      THEN [st EXCEPT !.result = resolved.result]
                      ELSE LET added == InstanceBuffer_add(st.ib, resolved.transforms, mesh_id)
                               mesh_commands ==
                                   to_render_command(mesh_id, material, sc.pipeline,
                                                     added.range, sc.global_bind_group,
                                                     sc.lighting_bind_group)
                           IN  [st EXCEPT !.ib = added.ib,
                                          !.adds = Append(@, [mesh |-> mesh_id,
                                                              range |-> added.range,
                                                              buffer |-> added.ib.buffer.id]),
                                          !.commands = Append(@, mesh_commands)]

\* the for loop of to_commands; `?` leaves it at the first error
RECURSIVE ToCommandsLoop(_, _, _, _, _)
ToCommandsLoop(sc, store, st, meshes, i) ==
    IF i > Len(meshes) \/ st.result # "Ok" THEN st
    ELSE ToCommandsLoop(sc, store, ToCommandsGroup(sc, store, st, meshes[i]), meshes, i + 1)

\* a to_commands that hands back the commands built before the error
Scene_to_commands_KeepsPartial(sc, store, ib) ==
    ToCommandsLoop(sc, store,
                   [result |-> "Ok", commands |-> <<>>, ib |-> ib, adds |-> <<>>],
                   KeysInOrder(DOMAIN sc.instances_by_mesh), 1)

\* Scene::to_commands: the Result (the commands are dropped with an Err), the
\* instance buffer as the call leaves it, and the add() calls it made
Scene_to_commands(sc, store, ib) ==
    LET st == ToCommandsLoop(sc, store,
                             [result |-> "Ok", commands |-> <<>>, ib |-> ib, adds |-> <<>>],
                             KeysInOrder(DOMAIN sc.instances_by_mesh), 1)
    IN  IF st.result = "Ok" THEN st ELSE [st EXCEPT !.commands = <<>>]

(***************************************************************************)
(* Renderer (src/graphics/render/renderer.rs)                              *)
(***************************************************************************)
\* Renderer::get_pipeline: SlotMap::get finds exactly the issued keys
get_pipeline(npipelines, id) == id \in 1..npipelines

\* Renderer::get_bind_group
get_bind_group(nbind_groups, id) == id \in 1..nbind_groups

\* Option::None of RenderCommandBuffer::skybox
NoSkybox == [sky_pipeline |-> 0, sky_bind_group |-> 0, camera_bind_group |-> 0]

\* Renderer::write_skybox_command: the result and the draws of the render pass after it
write_skybox_command(npipelines, nbind_groups, command, draws) ==
    IF ~get_pipeline(npipelines, command.sky_pipeline)
    THEN [result |-> "PipelineNotFound", draws |-> draws]
    ELSE IF ~get_bind_group(nbind_groups, command.camera_bind_group)
    THEN [result |-> "GlobalBindGroupNotFound", draws |-> draws]
    ELSE IF ~get_bind_group(nbind_groups, command.sky_bind_group)
    THEN [result |-> "GlobalBindGroupNotFound", draws |-> draws]
    ELSE [result |-> "Ok",
          draws |-> Append(draws, [kind |-> "skybox", mesh |-> 0, slice |-> NoSlice,
                                   range |-> [start |-> 0, end |-> 0], instances |-> 1])]

\* Renderer::write_mesh_command: the result and the draws of the render pass after it
write_mesh_command(ib, npipelines, nbind_groups, command, draws) ==
    IF ~get_pipeline(npipelines, command.pipeline)
    THEN [result |-> "PipelineNotFound", draws |-> draws]
    ELSE IF ~get_bind_group(nbind_groups, command.camera_bind_group)
    THEN [result |-> "GlobalBindGroupNotFound", draws |-> draws]
    ELSE IF ~get_bind_group(nbind_groups, command.lighting_bind_group)
    THEN [result |-> "GlobalBindGroupNotFound", draws |-> draws]
    ELSE IF ~get_bind_group(nbind_groups, command.material_bind_group)
    THEN [result |-> "GlobalBindGroupNotFound", draws |-> draws]
    ELSE LET instance_buffer_slice == InstanceBuffer_get_slice(ib, command.mesh)
         IN  IF instance_buffer_slice = NoSlice
             THEN [result |-> "MeshHasNoInstanceData", draws |-> draws]
             ELSE [result |-> "Ok",
                   draws |-> Append(draws, [kind |-> "mesh", mesh |-> command.mesh,
                                            slice |-> instance_buffer_slice,
                                            range |-> command.instance_buffer_range,
                                            instances |-> command.instances])]

\* a loop that goes on to the next mesh command after one has failed
RECURSIVE WriteMeshCommands_SkipFailed(_, _, _, _, _, _)
WriteMeshCommands_SkipFailed(ib, npipelines, nbind_groups, commands, i, st) ==
    IF i > Len(commands) THEN st
    ELSE LET w == write_mesh_command(ib, npipelines, nbind_groups, commands[i], st.draws)
         IN  WriteMeshCommands_SkipFailed(ib, npipelines, nbind_groups, commands, i + 1,
                 [result |-> IF st.result # "Ok" THEN st.result ELSE w.result,
                  draws |-> w.draws])

\* `for command in commands.mesh { self.write_mesh_command(..)? }`
RECURSIVE WriteMeshCommands(_, _, _, _, _, _)
WriteMeshCommands(ib, npipelines, nbind_groups, commands, i, st) ==
    IF i > Len(commands) \/ st.result # "Ok" THEN st
    ELSE WriteMeshCommands(ib, npipelines, nbind_groups, commands, i + 1,
                           write_mesh_command(ib, npipelines, nbind_groups, commands[i],
                                              st.draws))

\* the commands written against an instance buffer that was cleared first
WriteCommands_AfterClear(ib, npipelines, nbind_groups, skybox, commands) ==
    LET sky == IF skybox # NoSkybox
               THEN write_skybox_command(npipelines, nbind_groups, skybox, <<>>)
               ELSE [result |-> "Ok", draws |-> <<>>]
    IN  WriteMeshCommands(InstanceBuffer_clear(ib), npipelines, nbind_groups, commands, 1, sky)

\* "write the render commands" of render_scene_for_frame: the skybox command, if
\* any, then the mesh commands
WriteCommands(ib, npipelines, nbind_groups, skybox, commands) ==
    LET sky == IF skybox # NoSkybox
               THEN write_skybox_command(npipelines, nbind_groups, skybox, <<>>)
               ELSE [result |-> "Ok", draws |-> <<>>]
    IN  WriteMeshCommands(ib, npipelines, nbind_groups, commands, 1, sky)

\* the calls render_scene_for_frame makes on the instance buffer, in the order of
\* its statements: the add() calls of to_commands, write(), the get_slice() of every
\* mesh command that got as far, clear()
ArenaCalls(adds, written, wc, executed, cleared) ==
    LET slices == Cardinality({i \in 1..Len(wc.draws) : wc.draws[i].kind = "mesh"})
                      + (IF wc.result = "MeshHasNoInstanceData" THEN 1 ELSE 0)
    IN  [i \in 1..Len(adds) |-> "add"]
            \o (IF written THEN <<"write">> ELSE <<>>)
            \o (IF executed THEN [i \in 1..slices |-> "get_slice"] ELSE <<>>)
            \o (IF cleared THEN <<"clear">> ELSE <<>>)

(***************************************************************************)
(* The operations, as actions                                              *)
(***************************************************************************)
Running == panic = "none"

\* the place of a transform or a matrix in the record of an operation that dealt
\* with none
NoTransform == <<>>

\* the record of an operation that has not said anything yet
NoCall ==
    [op |-> "none", result |-> "none", mesh |-> 0,
     configured |-> FALSE, frame |-> FALSE,
     start_data |-> 0, start_ranges |-> {},
     assembled |-> FALSE, scene_result |-> "none", commands |-> <<>>, adds |-> <<>>,
     written |-> FALSE, executed |-> FALSE, draws |-> <<>>, submitted |-> FALSE,
     presented |-> FALSE, range |-> [start |-> 0, end |-> 0], slice |-> NoSlice,
     skybox |-> NoSkybox, ids |-> <<>>, instances |-> <<>>, calls |-> <<>>,
     id |-> 0, parent |-> 0, t |-> NoTransform, was_clean |-> FALSE, visited |-> <<>>,
     zero_size |-> FALSE,
     a |-> NoTransform, b |-> NoTransform, c |-> NoTransform,
     ab |-> NoTransform, bc |-> NoTransform, ab_c |-> NoTransform, a_bc |-> NoTransform,
     raw |-> NoTransform, propagated |-> NoTransform]

\* the children lists a caller hands to add_entity: empty, or one key, which is an
\* issued key or the key the new entity is about to get, or the root together with
\* the null key, which no World issues
ChildLists(ents) ==
    {<<>>} \cup {<<c>> : c \in 1..(Len(ents) + 1)} \cup {<<root_entity, NoneId>>}

\* the transform an update_parent_transform closure assigns
ParentTransforms == {Translate(0, 5, 0)}

\* World::add_entity(parent, children, local_transform)
AddEntity ==
    /\ Running
    /\ Len(entities) < MaxEntities + 1
    /\ \E parent \in {NoneId} \cup DOMAIN entities, children \in ChildLists(entities),
          local \in LocalTransforms :
         LET p  == IF parent = NoneId THEN root_entity ELSE parent
             id == SlotMap_insert(entities)
         IN  /\ entities' = Append(entities, WorldEntity_new(p, children, local))
             /\ issued' = issued \cup {id}
             /\ last' = [NoCall EXCEPT !.op = "add_entity", !.id = id, !.parent = parent,
                                       !.t = local]
    /\ propagateRuns' = 0
    /\ UNCHANGED <<panic, markedDirty, edits, arenaVars, rendererVars>>

\* World::entity_mut(id) then WorldEntity::update_local_transform
UpdateLocalTransform ==
    /\ Running
    /\ Len(edits) < MaxEdits
    /\ \E id \in DOMAIN entities, t \in LocalTransforms :
         /\ entities' = [entities EXCEPT ![id] = update_local_transform(@, t)]
         /\ last' = [NoCall EXCEPT !.op = "update_local_transform", !.id = id, !.t = t,
                                   !.was_clean = entities[id].already_propagated]
    /\ propagateRuns' = 0
    /\ edits' = Append(edits, "update_local_transform")
    /\ UNCHANGED <<panic, markedDirty, issued, arenaVars, rendererVars>>

\* World::entity_mut(id) then WorldEntity::update_parent_transform
UpdateParentTransform ==
    /\ Running
    /\ Len(edits) < MaxEdits
    /\ \E id \in DOMAIN entities, t \in ParentTransforms :
         entities' = [entities EXCEPT ![id] = update_parent_transform(@, t)]
    /\ propagateRuns' = 0
    /\ edits' = Append(edits, "update_parent_transform")
    /\ last' = [NoCall EXCEPT !.op = "update_parent_transform"]
    /\ UNCHANGED <<panic, markedDirty, issued, arenaVars, rendererVars>>

\* World::update_graph
UpdateGraph ==
    /\ Running
    /\ LET r == World_update_graph(entities)
       IN  /\ entities' = r.ents
           /\ markedDirty' = r.marked
           /\ panic' = r.panic
           /\ last' = [NoCall EXCEPT !.op = "update_graph", !.visited = r.visited,
                                     !.result = IF r.panic = "none" THEN "Ok" ELSE r.panic]
    /\ propagateRuns' = IF propagateRuns < 2 THEN propagateRuns + 1 ELSE 2
    /\ UNCHANGED <<edits, issued, arenaVars, rendererVars>>

\* the keys a caller can hold: the null key, the keys of this World, and a key no
\* insert has returned yet
EntityKeys == 0..(MaxEntities + 2)

\* World::entity(id) / World::entity_mut(id)
Entity ==
    /\ Running
    /\ \E id \in EntityKeys :
         last' = [NoCall EXCEPT !.op = "entity", !.id = id,
                                !.result = IF HasEntity(entities, id) THEN "Some" ELSE "None"]
    /\ UNCHANGED <<panic, worldVars, arenaVars, rendererVars>>

\* the record lists a caller hands to add(): n copies of one instance record
DataLens == {0, 1, 3, 2 * INITIAL_BUF_SIZE + 1}
Records(n) == [i \in 1..n |-> 1]

\* the meshes the callers of the instance buffer name
ArenaMeshIds == {1, 2}

\* InstanceBuffer::clear()
Clear ==
    /\ Running
    /\ instance_buffer' = InstanceBuffer_clear(instance_buffer)
    /\ returned' = <<>>
    /\ last' = [NoCall EXCEPT !.op = "clear"]
    /\ UNCHANGED <<panic, worldVars, rendererVars>>

\* InstanceBuffer::add(data, mesh)
Add ==
    /\ Running
    /\ Len(returned) < MaxAdds
    /\ \E n \in DataLens, mesh \in ArenaMeshIds :
         LET r == InstanceBuffer_add(instance_buffer, Records(n), mesh)
         IN  /\ instance_buffer' = r.ib
             /\ returned' = Append(returned, [mesh |-> mesh, range |-> r.range,
                                              records |-> n])
             /\ last' = [NoCall EXCEPT !.op = "add", !.mesh = mesh, !.range = r.range]
    /\ UNCHANGED <<panic, worldVars, rendererVars>>

\* InstanceBuffer::write()
Write ==
    /\ Running
    /\ IF InstanceBuffer_write_panics(instance_buffer)
       THEN /\ panic' = "capacity"
            /\ last' = [NoCall EXCEPT !.op = "write", !.result = "panic"]
       ELSE /\ panic' = panic
            /\ last' = [NoCall EXCEPT !.op = "write", !.result = "Ok", !.written = TRUE]
    /\ UNCHANGED <<worldVars, arenaVars, rendererVars>>

\* InstanceBuffer::get_slice(mesh)
GetSlice ==
    /\ Running
    /\ \E mesh \in ArenaMeshIds :
         last' = [NoCall EXCEPT !.op = "get_slice", !.mesh = mesh,
                                !.slice = InstanceBuffer_get_slice(instance_buffer, mesh)]
    /\ UNCHANGED <<panic, worldVars, arenaVars, rendererVars>>

\* the keys the scene's commands name: its pipeline, its camera and lighting bind
\* groups, and the bind groups of materials 1 and 2
ScenePipeline == 1
SceneGlobalBindGroup == 1
SceneLightingBindGroup == 2
FirstMaterialBindGroup == 3
LastMaterialBindGroup == 4

\* the asset store the renderer is built with: mesh 1 has material 1, mesh 3 has
\* material 2, and mesh 2 names material 3, which the store never issued
InitialAssets ==
    [meshes |-> [m \in {1, 2, 3} |->
                    [material |-> IF m = 1 THEN 1 ELSE IF m = 3 THEN 2 ELSE 3]],
     materials |-> [m \in {1, 2} |->
                       [bind_group |-> IF m = 1 THEN FirstMaterialBindGroup
                                       ELSE LastMaterialBindGroup]]]

\* the meshes add_mesh_instances is called with; the asset store never issued key 4
SceneMeshIds == {1, 2, 3, 4}

\* the nodes mesh instances name; the scene graph never issued key 2.  The
\* instances of meshes 2 and 4, which do not resolve, are never looked at.
SceneNodeIds(mesh) == IF mesh \in {1, 3} THEN {1, 2} ELSE {1}

\* the instance lists add_mesh_instances is called with
NodeLists(mesh) == UNION {[1..n -> SceneNodeIds(mesh)] : n \in 0..2}

\* the size of a scene: its mesh instances plus its groups without instance
SceneSize(sc) ==
    Len(sc.mesh_instances)
        + Cardinality({m \in DOMAIN sc.instances_by_mesh : sc.instances_by_mesh[m] = <<>>})

\* what commands.skybox holds: nothing, or a skybox drawn with the scene's pipeline
\* and camera bind group and a bind group of its own, which is registered last
SkyBindGroup == 4
SkyboxOptions ==
    {NoSkybox,
     [sky_pipeline |-> ScenePipeline, sky_bind_group |-> SkyBindGroup,
      camera_bind_group |-> SceneGlobalBindGroup]}

\* a resize that configures the surface whatever the size is
Resize_ZeroConfigures ==
    /\ Running
    /\ \E width \in {0, 1}, height \in {0, 1} :
         /\ surface_is_configured' = TRUE
         /\ last' = [NoCall EXCEPT !.op = "resize", !.configured = surface_is_configured,
                                   !.zero_size = ~(width > 0 /\ height > 0)]
    /\ UNCHANGED <<panic, worldVars, arenaVars, current_frame, pipelines, bind_groups,
                   assets, scene>>

\* Renderer::resize(width, height)
Resize ==
    /\ Running
    /\ \E width \in {0, 1}, height \in {0, 1} :
         /\ surface_is_configured' =
                IF width > 0 /\ height > 0 THEN TRUE ELSE surface_is_configured
         /\ last' = [NoCall EXCEPT !.op = "resize", !.configured = surface_is_configured,
                                   !.zero_size = ~(width > 0 /\ height > 0)]
    /\ UNCHANGED <<panic, worldVars, arenaVars, current_frame, pipelines, bind_groups,
                   assets, scene>>

\* Renderer::add_pipelines, one pipeline at a time
AddPipelines ==
    /\ Running
    /\ pipelines < ScenePipeline
    /\ pipelines' = pipelines + 1
    /\ last' = [NoCall EXCEPT !.op = "add_pipelines"]
    /\ UNCHANGED <<panic, worldVars, arenaVars, surface_is_configured, current_frame,
                   bind_groups, assets, scene>>

\* Renderer::add_bind_groups, one bind group at a time
AddBindGroups ==
    /\ Running
    /\ bind_groups < LastMaterialBindGroup
    /\ bind_groups' = bind_groups + 1
    /\ last' = [NoCall EXCEPT !.op = "add_bind_groups"]
    /\ UNCHANGED <<panic, worldVars, arenaVars, surface_is_configured, current_frame,
                   pipelines, assets, scene>>

\* Scene::add_mesh_instances(mesh, instances)
AddMeshInstances ==
    /\ Running
    /\ \E mesh \in SceneMeshIds :
       \E nodes \in NodeLists(mesh) :
         LET instances == [i \in 1..Len(nodes) |-> [mesh |-> mesh, node |-> nodes[i]]]
             r == Scene_add_mesh_instances(scene, mesh, instances)
         IN  /\ SceneSize(r.scene) <= MaxInstances
             /\ scene' = r.scene
             /\ last' = [NoCall EXCEPT !.op = "add_mesh_instances", !.mesh = mesh,
                                       !.instances = instances, !.ids = r.ids]
    /\ UNCHANGED <<panic, worldVars, arenaVars, surface_is_configured, current_frame,
                   pipelines, bind_groups, assets>>

\* Renderer::begin_frame: Surface::get_current_texture hands out a texture or fails;
\* it hands out none while the surface is unconfigured
BeginFrame ==
    /\ Running
    /\ \E acquired \in {TRUE, FALSE} :
         IF acquired /\ surface_is_configured
         THEN /\ current_frame' = TRUE
              /\ last' = [NoCall EXCEPT !.op = "begin_frame", !.result = "Ok",
                                        !.configured = surface_is_configured,
                                        !.frame = current_frame]
         ELSE /\ current_frame' = current_frame
              /\ last' = [NoCall EXCEPT !.op = "begin_frame", !.result = "Surface",
                                        !.configured = surface_is_configured,
                                        !.frame = current_frame]
    /\ UNCHANGED <<panic, worldVars, arenaVars, surface_is_configured, pipelines,
                   bind_groups, assets, scene>>

\* Renderer::end_frame
EndFrame ==
    /\ Running
    /\ IF current_frame
       THEN /\ current_frame' = FALSE
            /\ last' = [NoCall EXCEPT !.op = "end_frame", !.result = "Ok",
                                      !.configured = surface_is_configured,
                                      !.frame = TRUE, !.presented = TRUE]
       ELSE /\ current_frame' = current_frame
            /\ last' = [NoCall EXCEPT !.op = "end_frame", !.result = "NoFrameInProgress",
                                      !.configured = surface_is_configured,
                                      !.frame = FALSE]
    /\ UNCHANGED <<panic, worldVars, arenaVars, surface_is_configured, pipelines,
                   bind_groups, assets, scene>>

\* Renderer::render_scene_for_frame(scene, world), with what commands.skybox holds
RenderSceneForFrame ==
    /\ Running
    /\ Len(instance_buffer.buffer_data) + Len(scene.mesh_instances) <= MaxBacklog
    /\ \E skybox \in SkyboxOptions :
         LET call == [NoCall EXCEPT !.op = "render_scene_for_frame",
                                    !.configured = surface_is_configured,
                                    !.frame = current_frame,
                                    !.start_data = Len(instance_buffer.buffer_data),
                                    !.start_ranges = DOMAIN instance_buffer.mesh_ranges,
                                    !.skybox = skybox]
             tc == Scene_to_commands(scene, assets, instance_buffer)
             assembled == [call EXCEPT !.assembled = TRUE, !.scene_result = tc.result,
                                       !.commands = tc.commands, !.adds = tc.adds]
             wc == WriteCommands(tc.ib, pipelines, bind_groups, skybox, tc.commands)
         IN  IF ~surface_is_configured
             THEN /\ last' = [call EXCEPT !.result = "UnconfiguredSurface"]
                  /\ UNCHANGED <<panic, arenaVars>>
             ELSE IF tc.result # "Ok"
             THEN /\ last' = [assembled EXCEPT !.result = tc.result,
                                               !.calls = ArenaCalls(tc.adds, FALSE, wc, FALSE, FALSE)]
                  /\ instance_buffer' = tc.ib
                  /\ UNCHANGED panic
             ELSE IF InstanceBuffer_write_panics(tc.ib)
             THEN /\ last' = [assembled EXCEPT !.result = "panic",
                                               !.calls = ArenaCalls(tc.adds, TRUE, wc, FALSE, FALSE)]
                  /\ instance_buffer' = tc.ib
                  /\ panic' = "capacity"
             ELSE IF ~current_frame
             THEN /\ last' = [assembled EXCEPT !.result = "NoFrameInProgress",
                                               !.written = TRUE,
                                               !.calls = ArenaCalls(tc.adds, TRUE, wc, FALSE, FALSE)]
                  /\ instance_buffer' = tc.ib
                  /\ UNCHANGED panic
             ELSE IF wc.result # "Ok"
             THEN /\ last' = [assembled EXCEPT !.result = wc.result, !.written = TRUE,
                                               !.executed = TRUE, !.draws = wc.draws,
                                               !.calls = ArenaCalls(tc.adds, TRUE, wc, TRUE, FALSE)]
                  /\ instance_buffer' = tc.ib
                  /\ UNCHANGED panic
             ELSE /\ last' = [assembled EXCEPT !.result = "Ok", !.written = TRUE,
                                               !.executed = TRUE, !.draws = wc.draws,
                                               !.submitted = TRUE,
                                               !.calls = ArenaCalls(tc.adds, TRUE, wc, TRUE, TRUE)]
                  /\ instance_buffer' = InstanceBuffer_clear(tc.ib)
                  /\ UNCHANGED panic
    /\ UNCHANGED <<worldVars, rendererVars, returned>>

\* Renderer::encode_commands(encode)
EncodeCommands ==
    /\ Running
    /\ LET call == [NoCall EXCEPT !.op = "encode_commands",
                                  !.configured = surface_is_configured,
                                  !.frame = current_frame]
       IN  last' = IF ~surface_is_configured
                   THEN [call EXCEPT !.result = "UnconfiguredSurface"]
                   ELSE IF ~current_frame
                   THEN [call EXCEPT !.result = "NoFrameInProgress"]
                   ELSE [call EXCEPT !.result = "Ok", !.submitted = TRUE]
    /\ UNCHANGED <<panic, worldVars, arenaVars, rendererVars>>

\* Renderer::render_with_render_pass(render, use_depth)
RenderWithRenderPass ==
    /\ Running
    /\ LET call == [NoCall EXCEPT !.op = "render_with_render_pass",
                                  !.configured = surface_is_configured,
                                  !.frame = current_frame]
       IN  last' = IF ~surface_is_configured
                   THEN [call EXCEPT !.result = "UnconfiguredSurface"]
                   ELSE IF ~current_frame
                   THEN [call EXCEPT !.result = "NoFrameInProgress"]
                   ELSE [call EXCEPT !.result = "Ok", !.submitted = TRUE]
    /\ UNCHANGED <<panic, worldVars, arenaVars, rendererVars>>

\* State::new, the camera: world.add_entity(None, vec![], SpatialTransform::identity()),
\* made once
StateNewCamera ==
    /\ Running
    /\ Len(entities) = 1
    /\ entities' = Append(entities, WorldEntity_new(root_entity, <<>>, identity))
    /\ issued' = issued \cup {SlotMap_insert(entities)}
    /\ propagateRuns' = 0
    /\ last' = [NoCall EXCEPT !.op = "State::new"]
    /\ UNCHANGED <<panic, markedDirty, edits, arenaVars, rendererVars>>

\* State::update: FreecamController::update, when enabled, moves the camera entity
\* with update_local_transform; the call is unwrapped
StateUpdate ==
    /\ Running
    /\ Len(entities) > 1
    /\ \E enabled \in {TRUE, FALSE} :
         IF enabled
         THEN /\ Len(edits) < MaxEdits
              /\ \E t \in LocalTransforms :
                   entities' = [entities EXCEPT ![Len(entities)] = update_local_transform(@, t)]
              /\ propagateRuns' = 0
              /\ edits' = Append(edits, "update_local_transform")
         ELSE UNCHANGED <<entities, propagateRuns, edits>>
    /\ last' = [NoCall EXCEPT !.op = "State::update"]
    /\ UNCHANGED <<panic, markedDirty, issued, arenaVars, rendererVars>>

\* State::render: begin_frame, render_scene_for_frame, encode_commands,
\* render_with_render_pass and end_frame, each unwrapped
StateRender ==
    /\ Running
    /\ Len(instance_buffer.buffer_data) + Len(scene.mesh_instances) <= MaxBacklog
    /\ \E acquired \in {TRUE, FALSE}, skybox \in SkyboxOptions :
         LET call == [NoCall EXCEPT !.op = "State::render",
                                    !.configured = surface_is_configured,
                                    !.frame = current_frame,
                                    !.start_data = Len(instance_buffer.buffer_data),
                                    !.start_ranges = DOMAIN instance_buffer.mesh_ranges,
                                    !.skybox = skybox]
             tc == Scene_to_commands(scene, assets, instance_buffer)
             assembled == [call EXCEPT !.assembled = TRUE, !.scene_result = tc.result,
                                       !.commands = tc.commands, !.adds = tc.adds]
             wc == WriteCommands(tc.ib, pipelines, bind_groups, skybox, tc.commands)
         IN  IF ~(acquired /\ surface_is_configured)
             THEN /\ last' = [call EXCEPT !.result = "Surface"]
                  /\ panic' = "unwrap"
                  /\ UNCHANGED <<instance_buffer, current_frame>>
             ELSE IF tc.result # "Ok"
             THEN /\ last' = [assembled EXCEPT !.result = tc.result]
                  /\ panic' = "unwrap"
                  /\ instance_buffer' = tc.ib
                  /\ current_frame' = TRUE
             ELSE IF InstanceBuffer_write_panics(tc.ib)
             THEN /\ last' = [assembled EXCEPT !.result = "panic"]
                  /\ panic' = "capacity"
                  /\ instance_buffer' = tc.ib
                  /\ current_frame' = TRUE
             ELSE IF wc.result # "Ok"
             THEN /\ last' = [assembled EXCEPT !.result = wc.result, !.written = TRUE,
                                               !.executed = TRUE, !.draws = wc.draws]
                  /\ panic' = "unwrap"
                  /\ instance_buffer' = tc.ib
                  /\ current_frame' = TRUE
             ELSE /\ last' = [assembled EXCEPT !.result = "Ok", !.written = TRUE,
                                               !.executed = TRUE, !.draws = wc.draws,
                                               !.submitted = TRUE, !.presented = TRUE]
                  /\ UNCHANGED panic
                  /\ instance_buffer' = InstanceBuffer_clear(tc.ib)
                  /\ current_frame' = FALSE
    /\ UNCHANGED <<worldVars, returned, surface_is_configured, pipelines, bind_groups,
                   assets, scene>>

\* the transforms combine is called with: the identity, a non-uniform scale, a
\* translation, the turn by 120 degrees about (1,1,1) and the half turn about the
\* x axis, each off the origin, and a transform that scales, moves and turns
Transform(scale, position, rotation) ==
    [scale |-> scale, position |-> position, rotation |-> rotation]
Transforms ==
    {identity,
     Transform(Vec3(2, 1, 1), Vec3(0, 0, 0), <<2, 0, 0, 0>>),
     Translate(1, 0, 0),
     Transform(Vec3(1, 1, 1), Vec3(0, 5, 0), <<1, 1, 1, 1>>),
     Transform(Vec3(1, 1, 1), Vec3(0, 0, 1), <<0, 2, 0, 0>>),
     Transform(Vec3(2, 1, 3), Vec3(1, 0, 0), <<1, 1, 1, 1>>)}

\* an entity whose parent_transform is a and whose local_transform is b
WithTransforms(a, b) ==
    update_parent_transform(WorldEntity_new(root_entity, <<>>, b), a)

\* a.combine(&b).combine(&c) and a.combine(&b.combine(&c)) for transforms a, b, c,
\* and transform_raw() and transform() of an entity with parent_transform a and
\* local_transform b
Combine ==
    /\ Running
    /\ \E a \in Transforms, b \in Transforms, c \in Transforms :
         last' = [NoCall EXCEPT !.op = "combine", !.a = a, !.b = b, !.c = c,
                                !.ab = combine(a, b), !.bc = combine(b, c),
                                !.ab_c = combine(combine(a, b), c),
                                !.a_bc = combine(a, combine(b, c)),
                                !.raw = transform_raw(WithTransforms(a, b)).model,
                                !.propagated = model(transform(WithTransforms(a, b)))]
    /\ UNCHANGED <<panic, worldVars, arenaVars, rendererVars>>

Init ==
    /\ entities = World_new
    /\ panic = "none"
    /\ propagateRuns = 0
    /\ markedDirty = {}
    /\ edits = <<>>
    /\ issued = {root_entity}
    /\ instance_buffer = InstanceBuffer_new
    /\ returned = <<>>
    /\ surface_is_configured = FALSE
    /\ current_frame = FALSE
    /\ pipelines = 0
    /\ bind_groups = 0
    /\ assets = InitialAssets
    /\ scene = Scene_new(ScenePipeline, SceneGlobalBindGroup, SceneLightingBindGroup)
    /\ last = NoCall

NextWorld ==
    \/ AddEntity
    \/ UpdateLocalTransform
    \/ UpdateParentTransform
    \/ UpdateGraph

SpecWorld == Init /\ [][NextWorld]_vars

\* the operations that go to the slot map of the World: insert, get and get_mut
NextLookup ==
    \/ AddEntity
    \/ UpdateGraph
    \/ Entity

SpecLookup == Init /\ [][NextLookup]_vars

NextTransform ==
    \/ Combine

SpecTransform == Init /\ [][NextTransform]_vars

NextArena ==
    \/ Clear
    \/ Add
    \/ Write
    \/ GetSlice

SpecArena == Init /\ [][NextArena]_vars

Next ==
    \/ Resize
    \/ AddPipelines
    \/ AddBindGroups
    \/ AddMeshInstances
    \/ BeginFrame
    \/ EndFrame
    \/ RenderSceneForFrame
    \/ EncodeCommands
    \/ RenderWithRenderPass

Spec == Init /\ [][Next]_vars

\* the application: what State::new sets up, then State::update and State::render
NextFrame ==
    \/ StateNewCamera
    \/ AddMeshInstances
    \/ Resize
    \/ AddPipelines
    \/ AddBindGroups
    \/ StateUpdate
    \/ StateRender

SpecFrame == Init /\ [][NextFrame]_vars

(***************************************************************************)
(* Properties                                                              *)
(***************************************************************************)
RenderCalled == last.op = "render_scene_for_frame"

\* the byte range of a record range
Bytes(range) == [start |-> range.start * InstanceStride, end |-> range.end * InstanceStride]

\* the least element of a non-empty set of numbers
Least(S) == CHOOSE x \in S : \A y \in S : x <= y

\* C1: after update_graph completes and no mutation follows, every entity created by
\* add_entity has transform() == combine(parent.transform(), local_transform()).
C1_PropagationCorrect ==
    (/\ propagateRuns >= 1
     /\ panic = "none"
     /\ \A i \in 1..Len(edits) : edits[i] = "update_local_transform") =>
        \A e \in DOMAIN entities \ {root_entity} :
            transform(entities[e]) =
                combine(transform(entities[entities[e].parent]), entities[e].local_transform)

\* C2: in every render_scene_for_frame call each mesh command finds a slice at draw
\* time, and the slice is the byte range of the range this frame's add() returned for
\* the command's mesh, on the current device buffer; MeshHasNoInstanceData is never
\* returned.
C2_DrawsUseThisFramesRanges ==
    RenderCalled =>
        /\ last.result # "MeshHasNoInstanceData"
        /\ \A i \in 1..Len(last.draws) :
             LET d == last.draws[i]
             IN  d.kind = "mesh" =>
                   /\ \E j \in 1..Len(last.adds) :
                        /\ last.adds[j].mesh = d.mesh
                        /\ last.adds[j].range = d.range
                        /\ \A k \in (j + 1)..Len(last.adds) : last.adds[k].mesh # d.mesh
                   /\ d.slice.buffer = instance_buffer.buffer.id
                   /\ d.slice.start = Bytes(d.range).start
                   /\ d.slice.end = Bytes(d.range).end
                   /\ d.instances = d.range.end - d.range.start

\* a frame that succeeds with two mesh draws while records of a failed frame are
\* still in the buffer
C2_Witness ==
    /\ RenderCalled
    /\ last.result = "Ok"
    /\ last.start_data > 0
    /\ Cardinality({i \in 1..Len(last.draws) : last.draws[i].kind = "mesh"}) >= 2

\* C3: write() never reaches its capacity panic: at every write() the device buffer's
\* size in bytes is at least the number of records times the record stride.
C3_WriteWithinCapacity ==
    last.op = "write" =>
        /\ last.result # "panic"
        /\ instance_buffer.buffer.size >= Len(instance_buffer.buffer_data) * InstanceStride

\* C4: after every add() the capacity in records is at least the number of records
\* held.
C4_CapacityCoversMirror ==
    last.op = "add" => instance_buffer.buffer_size >= Len(instance_buffer.buffer_data)

\* C5: the ranges add() returned since the last clear() are pairwise disjoint, each
\* starts where the previous one ended, and their union is [0, buffer_data.len()).
C5_RangesPartition ==
    LET n == Len(returned)
        total == Len(instance_buffer.buffer_data)
        In(k, r) == r.start <= k /\ k < r.end
    IN  /\ \A i \in 1..n :
             /\ returned[i].range.start <= returned[i].range.end
             /\ returned[i].range.start = IF i = 1 THEN 0 ELSE returned[i - 1].range.end
        /\ \A i \in 1..n : \A j \in 1..n :
             i # j => ~\E k \in 0..total : In(k, returned[i].range) /\ In(k, returned[j].range)
        /\ \A k \in 0..(total - 1) : \E i \in 1..n : In(k, returned[i].range)
        /\ \A i \in 1..n : returned[i].range.end <= total

\* three add() calls in one frame, two of them with records, across a growth of the
\* device buffer
C5_Witness ==
    /\ Len(returned) >= 3
    /\ instance_buffer.buffer_size > INITIAL_BUF_SIZE
    /\ Cardinality({i \in 1..Len(returned) :
                       returned[i].range.end > returned[i].range.start}) >= 2

\* C6: every render_scene_for_frame call starts scene assembly with an empty
\* instance buffer: no records and no ranges.
C6_FrameStartsEmpty ==
    (RenderCalled /\ last.assembled) =>
        (last.start_data = 0 /\ last.start_ranges = {})

\* what the lookups of one group come to, read off the scene and the asset store:
\* the mesh, then its material, then the first instance whose record or node is missing
GroupFailure(sc, store, m) ==
    LET ids == sc.instances_by_mesh[m]
        bad == {i \in 1..Len(ids) :
                   \/ ids[i] \notin DOMAIN sc.mesh_instances
                   \/ sc.mesh_instances[ids[i]].node \notin 1..sc.scene_nodes}
    IN  IF m \notin DOMAIN store.meshes THEN "MeshNotFound"
        ELSE IF store.meshes[m].material \notin DOMAIN store.materials THEN "MaterialNotFound"
        ELSE IF bad = {} THEN "Ok"
        ELSE IF ids[Least(bad)] \notin DOMAIN sc.mesh_instances THEN "MeshInstanceNotFound"
        ELSE "SceneNodeNotFound"

FailingGroups == {m \in DOMAIN scene.instances_by_mesh : GroupFailure(scene, assets, m) # "Ok"}

\* C7: when a lookup fails during to_commands, the call returns the error of the
\* first failing lookup and no command at all, and add() was called for the groups
\* before the failing one only.
C7_FailFastAssembly ==
    (RenderCalled /\ last.assembled /\ FailingGroups # {}) =>
        LET f == Least(FailingGroups)
        IN  /\ last.scene_result = GroupFailure(scene, assets, f)
            /\ last.result = last.scene_result
            /\ last.commands = <<>>
            /\ Len(last.adds) = Cardinality({m \in DOMAIN scene.instances_by_mesh : m < f})
            /\ \A j \in 1..Len(last.adds) : last.adds[j].mesh < f
            /\ last.draws = <<>>
            /\ ~last.submitted

\* a node lookup fails after an earlier group was assembled and added
C7_Witness ==
    /\ RenderCalled
    /\ last.scene_result = "SceneNodeNotFound"
    /\ Len(last.adds) >= 1

\* the handles of a command that are not registered with the renderer
MeshCommandUnresolved(c) ==
    \/ c.pipeline \notin 1..pipelines
    \/ c.camera_bind_group \notin 1..bind_groups
    \/ c.lighting_bind_group \notin 1..bind_groups
    \/ c.material_bind_group \notin 1..bind_groups

SkyboxUnresolved(c) ==
    /\ c # NoSkybox
    /\ \/ c.sky_pipeline \notin 1..pipelines
       \/ c.camera_bind_group \notin 1..bind_groups
       \/ c.sky_bind_group \notin 1..bind_groups

\* C8: when a command of the frame names an unregistered pipeline or bind group, no
\* draw is issued for that command or a later one and nothing is submitted; when the
\* commands are executed the call returns PipelineNotFound or the bind group error
\* of the first such command.
C8_UnregisteredHandleStopsFrame ==
    (RenderCalled /\ last.assembled /\ last.scene_result = "Ok") =>
        LET bad == {i \in 1..Len(last.commands) : MeshCommandUnresolved(last.commands[i])}
            skyBad == SkyboxUnresolved(last.skybox)
            before == IF skyBad THEN 0
                      ELSE (IF last.skybox # NoSkybox THEN 1 ELSE 0)
                            + (IF bad = {} THEN Len(last.commands) ELSE Least(bad) - 1)
            firstPipeline ==
                IF skyBad THEN last.skybox.sky_pipeline
                ELSE last.commands[Least(bad)].pipeline
        IN  (skyBad \/ bad # {}) =>
              /\ ~last.submitted
              /\ last.result # "Ok"
              /\ Len(last.draws) <= before
              /\ \A i \in 1..Len(last.draws) :
                   last.draws[i].kind = "mesh" =>
                       \A b \in bad : last.draws[i].mesh # last.commands[b].mesh
              /\ last.executed =>
                   /\ Len(last.draws) = before
                   /\ last.result = IF firstPipeline \notin 1..pipelines
                                    THEN "PipelineNotFound"
                                    ELSE "GlobalBindGroupNotFound"

\* the second mesh command of a frame names an unregistered bind group after the
\* first one was drawn
C8_Witness ==
    /\ RenderCalled
    /\ last.executed
    /\ last.result = "GlobalBindGroupNotFound"
    /\ Len(last.commands) >= 2
    /\ \E i \in 1..Len(last.draws) : last.draws[i].kind = "mesh"

\* C9: on a configured surface, a draw-submitting operation called with no frame in
\* progress returns NoFrameInProgress and submits no draw; end_frame with no frame in
\* progress returns NoFrameInProgress; end_frame with a frame in progress presents
\* it, returns Ok and leaves no frame in progress.
C9_FrameProtocol ==
    /\ (/\ last.op \in {"render_scene_for_frame", "encode_commands", "render_with_render_pass"}
        /\ last.configured
        /\ ~last.frame)
          => (last.result = "NoFrameInProgress" /\ ~last.submitted /\ last.draws = <<>>)
    /\ (last.op = "end_frame" /\ last.configured /\ ~last.frame)
          => (last.result = "NoFrameInProgress" /\ ~last.presented)
    /\ (last.op = "end_frame" /\ last.configured /\ last.frame)
          => (last.result = "Ok" /\ last.presented /\ ~current_frame)

\* C10: a second update_graph call with no mutation in between changes no entity
\* and marks no entity dirty.
C10_PropagateIdempotent ==
    [][(propagateRuns >= 1 /\ propagateRuns' = 2)
          => (entities' = entities /\ markedDirty' = {} /\ panic' = panic)]_vars

\* update_graph ran twice in a row on a world with an edited root and an entity
\* that lists a child
C10_Witness ==
    /\ propagateRuns = 2
    /\ entities[root_entity].local_transform # identity
    /\ \E e \in DOMAIN entities : entities[e].children # <<>>

\* C11: combine is associative: combine(combine(a, b), c) = combine(a, combine(b, c))
\* in scale, position and rotation, for all transforms a, b, c.
C11_CombineAssociative ==
    last.op = "combine" => last.ab_c = last.a_bc

\* C12: identity is a left identity of combine: combine(identity, t) = t in scale,
\* position and rotation, for every transform t.
C12_LeftIdentity ==
    (last.op = "combine" /\ last.a = identity) => last.ab = last.b

\* identity combined with a transform that scales, moves and turns
C12_Witness ==
    /\ last.op = "combine"
    /\ last.a = identity
    /\ last.b.scale # Vec3(1, 1, 1)
    /\ last.b.position # Vec3(0, 0, 0)
    /\ last.b.rotation = <<1, 1, 1, 1>>
    /\ last.ab = last.b

\* the entities a list of children names
ChildrenOf(e) == {entities[e].children[i] : i \in 1..Len(entities[e].children)}

\* the entities reached from root in at most n steps along children links
RECURSIVE ReachedFromRoot(_)
ReachedFromRoot(n) ==
    IF n = 0 THEN {root_entity}
    ELSE LET near == ReachedFromRoot(n - 1)
         IN  near \cup UNION {ChildrenOf(e) : e \in near \cap DOMAIN entities}

\* the ancestors of e: its parent, the parent of its parent, ... (n steps)
RECURSIVE Ancestors(_, _)
Ancestors(e, n) ==
    IF n = 0 \/ e \notin DOMAIN entities \/ entities[e].parent = NoneId THEN {}
    ELSE {entities[e].parent} \cup Ancestors(entities[e].parent, n - 1)

\* C14: the parent and children links describe one tree rooted at root: root has no
\* parent, every other entity has a parent that lists it as a child, a children
\* list holds only entities whose parent field is the owner of the list, every
\* entity is reachable from root along children links, and there is no cycle.
C14_LinksFormTree ==
    /\ entities[root_entity].parent = NoneId
    /\ \A e \in DOMAIN entities \ {root_entity} :
         /\ entities[e].parent \in DOMAIN entities
         /\ e \in ChildrenOf(entities[e].parent)
    /\ \A p \in DOMAIN entities : \A c \in ChildrenOf(p) :
         c \in DOMAIN entities /\ entities[c].parent = p
    /\ DOMAIN entities \subseteq ReachedFromRoot(Len(entities))
    /\ \A e \in DOMAIN entities : e \notin Ancestors(e, Len(entities))

\* update_graph visits the root only, so no entity that has a parent is ever clean
NonRootNeverClean ==
    \A e \in DOMAIN entities \ {root_entity} : ~entities[e].already_propagated

\* C15: in the frame loop, when the World was mutated, update_graph runs after the
\* mutation and before the next read of transforms for rendering: no frame reads a
\* transform in to_commands while a mutation is still unpropagated.
C15_PropagateBeforeRender ==
    (/\ last.op = "State::render"
     /\ last.assembled
     /\ \E j \in 1..Len(last.adds) : last.adds[j].range.end > last.adds[j].range.start)
        => ~(edits # <<>> /\ propagateRuns = 0)

\* C16: add_mesh_instances(mesh, instances) returns one newly issued id per given
\* instance, in input order, each resolving to that instance and held by the
\* mesh's group afterwards, whether or not the mesh had a group before.
C16_ReturnsNewIds ==
    last.op = "add_mesh_instances" =>
        LET before == Len(scene.mesh_instances) - Len(last.instances)
            group  == scene.instances_by_mesh[last.mesh]
        IN  /\ Len(last.ids) = Len(last.instances)
            /\ \A i \in 1..Len(last.ids) :
                 /\ last.ids[i] = before + i
                 /\ scene.mesh_instances[last.ids[i]] = last.instances[i]
                 /\ \E k \in 1..Len(group) : group[k] = last.ids[i]

\* the records given to the add() calls 1..i for the mesh of call i
RECURSIVE RecordsForMesh(_, _)
RecordsForMesh(mesh, i) ==
    IF i = 0 THEN 0
    ELSE RecordsForMesh(mesh, i - 1) + (IF returned[i].mesh = mesh THEN returned[i].records ELSE 0)

\* C17 as stated: every range add() returns has end - start = the number of records
\* written for its mesh since the last clear(), several add() calls for one mesh
\* included.
C17_RangeCountsMeshRecords ==
    \A i \in 1..Len(returned) :
        returned[i].range.end - returned[i].range.start = RecordsForMesh(returned[i].mesh, i)

\* C17 as amended: every range add() returns has end - start = the number of records
\* given to that call, which is the number written for its mesh since the last
\* clear() when the mesh had no earlier add() since then.
C17_RangeCountsCallRecords ==
    \A i \in 1..Len(returned) :
        /\ returned[i].range.end - returned[i].range.start = returned[i].records
        /\ (\A j \in 1..(i - 1) : returned[j].mesh # returned[i].mesh) =>
               returned[i].range.end - returned[i].range.start
                   = RecordsForMesh(returned[i].mesh, i)

\* an empty add, and two adds with records for one mesh
C17_Witness ==
    /\ \E i \in 1..Len(returned) : returned[i].records = 0
    /\ \E i \in 1..Len(returned) : \E j \in 1..(i - 1) :
         /\ returned[j].mesh = returned[i].mesh
         /\ returned[j].records > 0
         /\ returned[i].records > 0

\* C18: add() leaves the capacity and the device buffer alone when the records fit,
\* otherwise it doubles the capacity and recreates the device buffer at the doubled
\* capacity; clear() changes neither.
C18_CapacityGrowth ==
    [][/\ last'.op = "add" =>
            IF Len(instance_buffer'.buffer_data) <= instance_buffer.buffer_size
            THEN /\ instance_buffer'.buffer_size = instance_buffer.buffer_size
                 /\ instance_buffer'.buffer = instance_buffer.buffer
            ELSE /\ instance_buffer'.buffer_size = 2 * instance_buffer.buffer_size
                 /\ instance_buffer'.buffer.id # instance_buffer.buffer.id
                 /\ instance_buffer'.buffer.size
                        = instance_buffer'.buffer_size * InstanceStride
       /\ last'.op = "clear" =>
            /\ instance_buffer'.buffer_size = instance_buffer.buffer_size
            /\ instance_buffer'.buffer = instance_buffer.buffer]_vars

\* the add() calls since the last clear() that named the mesh
AddsFor(mesh) == {i \in 1..Len(returned) : returned[i].mesh = mesh}

\* C19: get_slice(mesh) returns none exactly when no add() named the mesh since the
\* last clear(), and otherwise the byte range of the range the latest add() for the
\* mesh returned.
C19_SliceOfLatestAdd ==
    last.op = "get_slice" =>
        IF AddsFor(last.mesh) = {}
        THEN last.slice = NoSlice
        ELSE LET latest == CHOOSE i \in AddsFor(last.mesh) : \A j \in AddsFor(last.mesh) : j <= i
             IN  /\ last.slice # NoSlice
                 /\ last.slice.buffer = instance_buffer.buffer.id
                 /\ last.slice.start = returned[latest].range.start * InstanceStride
                 /\ last.slice.end = returned[latest].range.end * InstanceStride

\* get_slice for a mesh that two add() calls named, the later one off the start
C19_Witness ==
    /\ last.op = "get_slice"
    /\ Cardinality(AddsFor(last.mesh)) >= 2
    /\ last.slice.start > 0
    /\ last.slice.end > last.slice.start

\* C20: when every lookup succeeds, to_commands calls add() once per group and emits
\* one command per group, in group order, whose instance range is the range that
\* add() returned and whose instance count is end - start, the size of the group.
C20_OneAddOneCommandPerGroup ==
    (RenderCalled /\ last.assembled /\ last.scene_result = "Ok") =>
        LET groups == KeysInOrder(DOMAIN scene.instances_by_mesh)
        IN  /\ Len(last.adds) = Len(groups)
            /\ Len(last.commands) = Len(groups)
            /\ \A i \in 1..Len(groups) :
                 LET c == last.commands[i]
                 IN  /\ last.adds[i].mesh = groups[i]
                     /\ c.mesh = groups[i]
                     /\ c.instance_buffer_range = last.adds[i].range
                     /\ c.instances = c.instance_buffer_range.end - c.instance_buffer_range.start
                     /\ c.instances = Len(scene.instances_by_mesh[groups[i]])

\* two groups with instances assembled behind the records of an earlier frame
C20_Witness ==
    /\ RenderCalled
    /\ last.scene_result = "Ok"
    /\ last.start_data > 0
    /\ Len(last.commands) >= 2
    /\ \A i \in 1..Len(last.commands) : last.commands[i].instances >= 1

\* the place of an instance buffer call in a frame: add, write, get_slice, clear
CallRank(call) ==
    IF call = "add" THEN 1 ELSE IF call = "write" THEN 2 ELSE IF call = "get_slice" THEN 3 ELSE 4

\* C21: in one render_scene_for_frame call the instance buffer sees its add() calls,
\* then write() once, then its get_slice() calls, then clear(): no get_slice comes
\* before an add() or before write(), none after clear(), write() runs once when
\* the assembly succeeded and not at all otherwise, and every slice a draw uses is
\* found and lies on the device buffer the frame's last add() left, which is the
\* buffer the arena holds when the call returns.
C21_AddsThenWriteThenSlices ==
    RenderCalled =>
        LET calls  == last.calls
            writes == {i \in 1..Len(calls) : calls[i] = "write"}
            slices == {i \in 1..Len(calls) : calls[i] = "get_slice"}
        IN  /\ \A i \in 1..Len(calls) : \A j \in (i + 1)..Len(calls) :
                 CallRank(calls[i]) <= CallRank(calls[j])
            /\ Cardinality(writes) =
                   (IF last.assembled /\ last.scene_result = "Ok" THEN 1 ELSE 0)
            /\ Cardinality({i \in 1..Len(calls) : calls[i] = "add"}) = Len(last.adds)
            /\ Cardinality({i \in 1..Len(calls) : calls[i] = "clear"}) <= 1
            /\ slices # {} => writes # {}
            /\ last.executed =>
                   Cardinality(slices) = Len(last.commands)
                       \/ (last.result # "Ok" /\ Cardinality(slices) < Len(last.commands))
            /\ last.result # "MeshHasNoInstanceData"
            /\ \A i \in 1..Len(last.draws) :
                 LET d == last.draws[i]
                 IN  d.kind = "mesh" =>
                       /\ d.slice # NoSlice
                       /\ Len(last.adds) > 0
                       /\ d.slice.buffer = last.adds[Len(last.adds)].buffer
                       /\ d.slice.buffer = instance_buffer.buffer.id

\* a frame that adds two groups, writes, takes two slices and clears
C21_Witness ==
    /\ RenderCalled
    /\ last.result = "Ok"
    /\ last.calls = <<"add", "add", "write", "get_slice", "get_slice", "clear">>

\* C22: update_local_transform on an entity sets that entity's local_transform to
\* what the mutator assigns and leaves its clean flag false, whatever the flag was;
\* the entity's parent, children and parent_transform and every other entity stay
\* as they were.
C22_LocalEditClearsFlag ==
    [][last'.op = "update_local_transform" =>
          /\ DOMAIN entities' = DOMAIN entities
          /\ \A e \in DOMAIN entities :
               IF e = last'.id
               THEN /\ entities'[e].local_transform = last'.t
                    /\ entities'[e].already_propagated = FALSE
                    /\ entities'[e].parent = entities[e].parent
                    /\ entities'[e].children = entities[e].children
                    /\ entities'[e].parent_transform = entities[e].parent_transform
               ELSE entities'[e] = entities[e]]_vars

\* the local transform of an entity that was clean is edited while other entities
\* exist
C22_Witness ==
    /\ last.op = "update_local_transform"
    /\ last.was_clean
    /\ Len(entities) >= 2
    /\ entities[last.id].local_transform = last.t
    /\ ~entities[last.id].already_propagated

\* C23: World::entity(id) and World::entity_mut(id) never panic; they return the
\* entity for exactly the ids this World has issued (the root and every add_entity
\* result) and none for every other id; add_entity returns an id not issued
\* before, and an issued id keeps resolving, to an entity with the same parent and
\* children, for ever.
C23_LookupFindsIssuedIds ==
    [][/\ panic' = "none" =>
            /\ last'.op = "entity" =>
                  /\ last'.result = (IF last'.id \in issued' THEN "Some" ELSE "None")
                  /\ panic' = panic
            /\ last'.op = "add_entity" =>
                  /\ last'.id \notin issued
                  /\ last'.id \in issued'
                  /\ HasEntity(entities', last'.id)
            /\ \A id \in issued :
                  /\ id \in issued'
                  /\ HasEntity(entities, id)
                  /\ HasEntity(entities', id)
                  /\ entities'[id].parent = entities[id].parent
                  /\ entities'[id].children = entities[id].children
            /\ root_entity \in issued]_vars

\* a lookup of the id the last add_entity returned, in a World that has issued
\* every id it can
C23_Witness ==
    /\ last.op = "entity"
    /\ Cardinality(issued) = MaxEntities + 1
    /\ last.id = MaxEntities + 1
    /\ last.result = "Some"

\* C24: add_entity(parent, children, local) inserts one entity and returns its id:
\* the new entity's parent is the given parent, or the root when the parent is
\* None, its local_transform is local, its parent_transform is the identity and its
\* clean flag is false; no existing entity's local_transform, parent_transform or
\* clean flag changes.
C24_AddEntityInsertsOne ==
    [][last'.op = "add_entity" =>
          /\ Len(entities') = Len(entities) + 1
          /\ last'.id \in DOMAIN entities' \ DOMAIN entities
          /\ LET new == entities'[last'.id]
             IN  /\ new.parent = (IF last'.parent = NoneId THEN root_entity ELSE last'.parent)
                 /\ new.local_transform = last'.t
                 /\ new.parent_transform = identity
                 /\ new.already_propagated = FALSE
          /\ \A e \in DOMAIN entities :
               /\ entities'[e].local_transform = entities[e].local_transform
               /\ entities'[e].parent_transform = entities[e].parent_transform
               /\ entities'[e].already_propagated = entities[e].already_propagated]_vars

\* an entity is added under another added entity while the root is clean
C24_Witness ==
    /\ last.op = "add_entity"
    /\ last.parent \notin {NoneId, root_entity}
    /\ entities[last.id].parent = last.parent
    /\ entities[root_entity].already_propagated

\* C25: every update_graph call dequeues every entity of the World, whatever the
\* clean flags are, so that after the call every entity, those added since the
\* previous call included, is clean.
C25_PropagateVisitsAll ==
    (last.op = "update_graph" /\ last.result = "Ok") =>
        \A e \in DOMAIN entities :
            /\ \E i \in 1..Len(last.visited) : last.visited[i] = e
            /\ entities[e].already_propagated

\* C30: update_graph returns, without a panic, on every World the public operations
\* can build (World::new, add_entity with any parent and children, the two
\* update_*_transform calls), also when an entity is listed as a child of several
\* entities or a children list names an id that is not in the World.
C30_PropagateTerminates ==
    /\ panic = "none"
    /\ last.op = "update_graph" =>
          /\ last.result = "Ok"
          /\ Len(last.visited) < MaxVisits

\* update_graph returned on a World in which two entities list the root as a child
\* and a children list names the null key
C30_Witness ==
    /\ last.op = "update_graph"
    /\ last.result = "Ok"
    /\ \E a \in DOMAIN entities : \E b \in DOMAIN entities \ {a} :
         root_entity \in ChildrenOf(a) \cap ChildrenOf(b)
    /\ \E a \in DOMAIN entities : \E c \in ChildrenOf(a) : c \notin DOMAIN entities

\* C26: update_graph changes no entity's local_transform, parent or children; it
\* overwrites an entity's parent_transform, and marks that entity not clean, only
\* when the entity's parent was not clean when it was dequeued; an entity that is
\* clean and whose ancestors are all clean keeps its parent_transform and its flag.
C26_PropagateFrame ==
    [][(last'.op = "update_graph" /\ last'.result = "Ok") =>
          /\ DOMAIN entities' = DOMAIN entities
          /\ \A e \in DOMAIN entities :
               /\ entities'[e].local_transform = entities[e].local_transform
               /\ entities'[e].parent = entities[e].parent
               /\ entities'[e].children = entities[e].children
               /\ (\/ entities'[e].parent_transform # entities[e].parent_transform
                   \/ e \in markedDirty'
                   \/ (entities[e].already_propagated /\ ~entities'[e].already_propagated)) =>
                      LET p == entities[e].parent
                      IN  /\ p \in DOMAIN entities
                          /\ \E i \in 1..Len(last'.visited) : last'.visited[i] = p
                          /\ ~entities[p].already_propagated \/ p \in markedDirty'
               /\ (/\ entities[e].already_propagated
                   /\ \A a \in Ancestors(e, Len(entities)) : entities[a].already_propagated) =>
                      /\ entities'[e].parent_transform = entities[e].parent_transform
                      /\ entities'[e].already_propagated]_vars

\* update_graph ran on a World whose root was clean and had an edited
\* parent_transform, beside entities that were not clean
C26_Witness ==
    /\ last.op = "update_graph"
    /\ last.result = "Ok"
    /\ propagateRuns = 2
    /\ entities[root_entity].parent_transform # identity
    /\ entities[root_entity].already_propagated
    /\ \E e \in DOMAIN entities : ~entities[e].already_propagated

\* C27: for every entity the model matrix of transform_raw(), which is
\* parent_transform.combine_raw(local_transform), is the T*R*S model matrix of
\* transform(), which is parent_transform.combine(local_transform), for any scales
\* and rotations of the two transforms.
C27_RawAgreesWithPropagated ==
    last.op = "combine" => last.raw = last.propagated

C29_FramesPresentedOnce ==
    /\ (last.op = "begin_frame" /\ last.result = "Ok") => (~last.frame /\ current_frame)
    /\ (last.op = "end_frame" /\ last.frame) => (last.presented /\ ~current_frame)
    /\ (last.op = "end_frame" /\ ~last.frame) => ~last.presented

====
